---- MODULE Spec2Model ----
(***************************************************************************)
(* Model of rocket-todo-app (src/main.rs): the in-memory TodoAppState, its *)
(* mutation methods and the Rocket handlers that call them while holding   *)
(* the Mutex guard.  Each handler locks the store on its first line and    *)
(* drops the guard when it returns, so a handler is one atomic step.       *)
(***************************************************************************)
EXTENDS Integers, Sequences, FiniteSets, TLC

(* ---------------------------- bounds ----------------------------------- *)
\* number of distinct values Uuid::new_v4() can return in the model
MaxUuid == 2
\* add_todo is not fired once the store holds this many records
MaxTodos == 3
\* number of requests the transport has dispatched to worker threads at once
MaxThreads == 2

Uuids == 1..MaxUuid
Threads == 1..MaxThreads
\* content strings a client can send (no operation inspects a content)
Contents == {"x", "new"}

(* ------------------------- data model ---------------------------------- *)
\* uuid.to_hyphenated().to_string(): an injective rendering of the uuid
to_hyphenated(u) == "uuid-" \o ToString(u)

\* struct Todo { id, content, completed }
Todo(id, content, completed) ==
    [id |-> id, content |-> content, completed |-> completed]

\* todo_id strings a client can put in a payload: every string the
\* generator can produce, and one string it never produces
TodoIds == {to_hyphenated(u) : u \in Uuids} \cup {"bogus"}

\* filter: Option<String>; <<>> is None, <<s>> is Some(s)
Filters == {<<>>, <<"all">>, <<"active">>, <<"completed">>, <<"bogus">>}

VARIABLES
    state,      \* the managed TodoAppState: [todos |-> Seq(Todo)]
    response,   \* the Json envelope the last handler returned
    last,       \* the last request handled and what its store method returned
    pre,        \* state.todos as it was when the last handler took the lock
    issued,     \* every id string add_todo has assigned so far (SpecIds)
    twice,      \* the last two requests were the same toggle request
    pc,         \* where each worker thread is in its handler
    req,        \* the request each worker thread was dispatched
    out,        \* the Json envelope each worker thread returns
    lock,       \* the thread holding the MutexGuard, 0 when the Mutex is free
    loop,       \* all_completed and the loop position of a running toggle_all
    abs,        \* the store with the finished operations applied one at a time
    exp         \* the envelope each finished operation returns when run alone

svars == <<response, last, pre, issued, twice>>
cvars == <<pc, req, out, lock, loop, abs, exp>>
vars == <<state, response, last, pre, issued, twice,
          pc, req, out, lock, loop, abs, exp>>

(* --------------------- TodoAppState methods ---------------------------- *)
\* TodoAppState::new
new == [todos |-> <<>>]

\* add_todo inserting the new record at the front (insert(0, todo))
add_todo_at_front(ts, uuid, content) ==
    LET todo == Todo(to_hyphenated(uuid), content, FALSE)
        todo_id == todo.id
    IN  [todos |-> <<todo>> \o ts, ret |-> todo_id]

\* TodoAppState::add_todo, with uuid the value Uuid::new_v4() returned
TodoAppState_add_todo(ts, uuid, content) ==
    LET todo == Todo(to_hyphenated(uuid), content, FALSE)
        todo_id == todo.id
    IN  [todos |-> Append(ts, todo), ret |-> todo_id]

\* remove_todo reporting len == self.todos.len()
remove_todo_inverted_ret(ts, todo_id) ==
    LET len == Len(ts)
        kept == SelectSeq(ts, LAMBDA todo : todo.id # todo_id)
    IN  [todos |-> kept, ret |-> (len = Len(kept))]

\* remove_todo with the retain predicate inverted (todo.id == todo_id)
remove_todo_keeps_match(ts, todo_id) ==
    LET len == Len(ts)
        kept == SelectSeq(ts, LAMBDA todo : todo.id = todo_id)
    IN  [todos |-> kept, ret |-> (len # Len(kept))]

\* TodoAppState::remove_todo (SelectSeq is Vec::retain: it keeps, in order,
\* the elements the closure accepts)
TodoAppState_remove_todo(ts, todo_id) ==
    LET len == Len(ts)
        kept == SelectSeq(ts, LAMBDA todo : todo.id # todo_id)
    IN  [todos |-> kept, ret |-> (len # Len(kept))]

\* clear_completed with the retain predicate inverted (todo.completed)
clear_completed_keeps_completed(ts) ==
    [todos |-> SelectSeq(ts, LAMBDA todo : todo.completed)]

\* TodoAppState::clear_completed
TodoAppState_clear_completed(ts) ==
    [todos |-> SelectSeq(ts, LAMBDA todo : ~todo.completed)]

\* the loop of handle_todo: index of the first record at or after i whose
\* id equals todo_id, 0 when the loop runs off the end
RECURSIVE find_todo(_, _, _)
find_todo(ts, todo_id, i) ==
    IF i > Len(ts) THEN 0
    ELSE IF ts[i].id = todo_id THEN i
    ELSE find_todo(ts, todo_id, i + 1)

\* handle_todo without the early return: every matching record is handled
handle_todo_every_match(ts, todo_id, handled) ==
    [todos |-> [i \in 1..Len(ts) |->
                    IF ts[i].id = todo_id THEN handled[i] ELSE ts[i]],
     ret |-> (find_todo(ts, todo_id, 1) # 0)]

\* TodoAppState::handle_todo; handled[i] is what the closure makes of ts[i],
\* and only the first matching record is handed to it
TodoAppState_handle_todo(ts, todo_id, handled) ==
    LET i == find_todo(ts, todo_id, 1)
    IN  IF i # 0
        THEN [todos |-> [ts EXCEPT ![i] = handled[i]], ret |-> TRUE]
        ELSE [todos |-> ts, ret |-> FALSE]

\* update_todo rebuilding the record with id: todo_content
update_todo_content_as_id(ts, todo_id, todo_content) ==
    TodoAppState_handle_todo(ts, todo_id,
        [i \in 1..Len(ts) |-> Todo(todo_content, todo_content, ts[i].completed)])

\* update_todo rebuilding the record with completed: false
update_todo_resets_completed(ts, todo_id, todo_content) ==
    TodoAppState_handle_todo(ts, todo_id,
        [i \in 1..Len(ts) |-> Todo(todo_id, todo_content, FALSE)])

\* TodoAppState::update_todo
TodoAppState_update_todo(ts, todo_id, todo_content) ==
    TodoAppState_handle_todo(ts, todo_id,
        [i \in 1..Len(ts) |-> Todo(todo_id, todo_content, ts[i].completed)])

\* toggle_todo assigning completed = true instead of negating it
toggle_todo_sets_true(ts, todo_id) ==
    TodoAppState_handle_todo(ts, todo_id,
        [i \in 1..Len(ts) |-> [ts[i] EXCEPT !.completed = TRUE]])

\* TodoAppState::toggle_todo
TodoAppState_toggle_todo(ts, todo_id) ==
    TodoAppState_handle_todo(ts, todo_id,
        [i \in 1..Len(ts) |-> [ts[i] EXCEPT !.completed = ~ts[i].completed]])

\* toggle_all that only ever completes (completed = true)
toggle_all_only_completes(ts) ==
    [todos |-> [i \in 1..Len(ts) |-> [ts[i] EXCEPT !.completed = TRUE]]]

\* toggle_all negating each record's own flag instead of all_completed
toggle_all_per_item(ts) ==
    [todos |-> [i \in 1..Len(ts) |->
                    [ts[i] EXCEPT !.completed = ~ts[i].completed]]]

\* TodoAppState::toggle_all
TodoAppState_toggle_all(ts) ==
    LET all_completed == \A i \in 1..Len(ts) : ts[i].completed
    IN  [todos |-> [i \in 1..Len(ts) |->
                        [ts[i] EXCEPT !.completed = ~all_completed]]]

(* ----------------------------- handlers -------------------------------- *)
\* the filter closure with the catch-all arm rejecting (_ => false)
filter_keeps_rejects_unknown(filter, todo) ==
    IF filter # <<>>
    THEN CASE filter[1] = "all" -> TRUE
           [] filter[1] = "active" -> ~todo.completed
           [] filter[1] = "completed" -> todo.completed
           [] OTHER -> FALSE
    ELSE TRUE

\* the closure passed to retain in the todos handler
filter_keeps(filter, todo) ==
    IF filter # <<>>
    THEN CASE filter[1] = "all" -> TRUE
           [] filter[1] = "active" -> ~todo.completed
           [] filter[1] = "completed" -> todo.completed
           [] OTHER -> TRUE
    ELSE TRUE

\* format!("{id} is not found", id = payload.todo_id)
not_found(todo_id) == todo_id \o " is not found"

\* the format string of the toggle_todo handler
not_found_bang(todo_id) == todo_id \o " is not found!"

Ok == [success |-> TRUE, message |-> ""]
Fail(message) == [success |-> FALSE, message |-> message]

Call(name, todo_id, content, filter, ret, new_id) ==
    [name |-> name, todo_id |-> todo_id, content |-> content,
     filter |-> filter, ret |-> ret, new_id |-> new_id]

\* bookkeeping shared by every handler
Record(call) ==
    /\ last' = call
    /\ pre' = state.todos
    /\ twice' = /\ call.name \in {"toggle_todo", "toggle_all"}
                 /\ call.name = last.name
                 /\ call.todo_id = last.todo_id
    /\ UNCHANGED cvars

\* no request handled yet
NoHistory ==
    /\ response = [none |-> TRUE]
    /\ last = Call("new", "", "", <<>>, TRUE, "")
    /\ pre = <<>>
    /\ issued = {}
    /\ twice = FALSE

\* no worker thread dispatched, Mutex::new: unlocked
NoThreads ==
    /\ pc = <<>>
    /\ req = <<>>
    /\ out = <<>>
    /\ exp = <<>>
    /\ loop = <<>>
    /\ lock = 0
    /\ abs = <<>>

Init ==
    /\ state = new
    /\ NoHistory
    /\ NoThreads

\* GET /todos?<filter>
todos(filter) ==
    LET data == SelectSeq(state.todos, LAMBDA todo : filter_keeps(filter, todo))
    IN  /\ response' = [success |-> TRUE, message |-> "", data |-> data]
        /\ Record(Call("todos", "", "", filter, TRUE, ""))
        /\ UNCHANGED <<state, issued>>

\* POST /add_todo: what the handler does to the store and answers
add_todo_request(uuid, content) ==
    LET r == TodoAppState_add_todo(state.todos, uuid, content)
    IN  /\ Len(state.todos) < MaxTodos
        /\ state' = [state EXCEPT !.todos = r.todos]
        /\ response' = Ok
        /\ Record(Call("add_todo", "", content, <<>>, TRUE, r.ret))

\* POST /add_todo
add_todo(uuid, content) ==
    /\ add_todo_request(uuid, content)
    /\ UNCHANGED issued

\* POST /add_todo, with the id it assigns entered in the history of ids
add_todo_logged(uuid, content) ==
    /\ add_todo_request(uuid, content)
    /\ issued' = issued \cup {to_hyphenated(uuid)}

\* POST /remove_todo
remove_todo(todo_id) ==
    LET r == TodoAppState_remove_todo(state.todos, todo_id)
    IN  /\ state' = [state EXCEPT !.todos = r.todos]
        /\ response' = IF r.ret THEN Ok ELSE Fail(not_found(todo_id))
        /\ Record(Call("remove_todo", todo_id, "", <<>>, r.ret, ""))
        /\ UNCHANGED issued

\* POST /update_todo
update_todo(todo_id, content) ==
    LET r == TodoAppState_update_todo(state.todos, todo_id, content)
    IN  /\ state' = [state EXCEPT !.todos = r.todos]
        /\ response' = IF r.ret THEN Ok ELSE Fail(not_found(todo_id))
        /\ Record(Call("update_todo", todo_id, content, <<>>, r.ret, ""))
        /\ UNCHANGED issued

\* POST /toggle_todo
toggle_todo(todo_id) ==
    LET r == TodoAppState_toggle_todo(state.todos, todo_id)
    IN  /\ state' = [state EXCEPT !.todos = r.todos]
        /\ response' = IF r.ret THEN Ok ELSE Fail(not_found_bang(todo_id))
        /\ Record(Call("toggle_todo", todo_id, "", <<>>, r.ret, ""))
        /\ UNCHANGED issued

\* POST /clear_completed
clear_completed ==
    LET r == TodoAppState_clear_completed(state.todos)
    IN  /\ state' = [state EXCEPT !.todos = r.todos]
        /\ response' = Ok
        /\ Record(Call("clear_completed", "", "", <<>>, TRUE, ""))
        /\ UNCHANGED issued

\* POST /toggle_all
toggle_all ==
    LET r == TodoAppState_toggle_all(state.todos)
    IN  /\ state' = [state EXCEPT !.todos = r.todos]
        /\ response' = Ok
        /\ Record(Call("toggle_all", "", "", <<>>, TRUE, ""))
        /\ UNCHANGED issued

Next ==
    \/ \E filter \in Filters : todos(filter)
    \/ \E uuid \in Uuids, content \in Contents : add_todo(uuid, content)
    \/ \E todo_id \in TodoIds : remove_todo(todo_id)
    \/ \E todo_id \in TodoIds, content \in Contents : update_todo(todo_id, content)
    \/ \E todo_id \in TodoIds : toggle_todo(todo_id)
    \/ clear_completed
    \/ toggle_all

Spec == Init /\ [][Next]_vars

\* the same requests, with the history of assigned ids kept
NextIds ==
    \/ \E filter \in Filters : todos(filter)
    \/ \E uuid \in Uuids, content \in Contents : add_todo_logged(uuid, content)
    \/ \E todo_id \in TodoIds : remove_todo(todo_id)
    \/ \E todo_id \in TodoIds, content \in Contents : update_todo(todo_id, content)
    \/ \E todo_id \in TodoIds : toggle_todo(todo_id)
    \/ clear_completed
    \/ toggle_all

SpecIds == Init /\ [][NextIds]_vars

(* ------------------------ concurrent requests -------------------------- *)
\* what a handler does with the store ts and what it answers, when it runs
\* from state.lock() to its return with nothing in between
handler(ts, call, uuid) ==
    CASE call.name = "todos" ->
           [todos |-> ts,
            response |-> [success |-> TRUE, message |-> "",
                          data |-> SelectSeq(ts,
                                     LAMBDA todo : filter_keeps(call.filter, todo))]]
      [] call.name = "add_todo" ->
           [todos |-> TodoAppState_add_todo(ts, uuid, call.content).todos,
            response |-> Ok]
      [] call.name = "remove_todo" ->
           LET r == TodoAppState_remove_todo(ts, call.todo_id)
           IN  [todos |-> r.todos,
                response |-> IF r.ret THEN Ok ELSE Fail(not_found(call.todo_id))]
      [] call.name = "update_todo" ->
           LET r == TodoAppState_update_todo(ts, call.todo_id, call.content)
           IN  [todos |-> r.todos,
                response |-> IF r.ret THEN Ok ELSE Fail(not_found(call.todo_id))]
      [] call.name = "toggle_todo" ->
           LET r == TodoAppState_toggle_todo(ts, call.todo_id)
           IN  [todos |-> r.todos,
                response |-> IF r.ret THEN Ok
                             ELSE Fail(not_found_bang(call.todo_id))]
      [] call.name = "clear_completed" ->
           [todos |-> TodoAppState_clear_completed(ts).todos, response |-> Ok]
      [] call.name = "toggle_all" ->
           [todos |-> TodoAppState_toggle_all(ts).todos, response |-> Ok]

\* the requests the worker threads are dispatched with
RequestList ==
    << Call("todos", "", "", <<>>, TRUE, ""),
       Call("todos", "", "", <<"active">>, TRUE, ""),
       Call("todos", "", "", <<"completed">>, TRUE, ""),
       Call("add_todo", "", "new", <<>>, TRUE, ""),
       Call("remove_todo", to_hyphenated(1), "", <<>>, TRUE, ""),
       Call("update_todo", to_hyphenated(1), "new", <<>>, TRUE, ""),
       Call("toggle_todo", to_hyphenated(1), "", <<>>, TRUE, ""),
       Call("clear_completed", "", "", <<>>, TRUE, ""),
       Call("toggle_all", "", "", <<>>, TRUE, "") >>

Requests == {RequestList[k] : k \in 1..Len(RequestList)}

\* worker threads are interchangeable: they are numbered in the order of
\* their requests in RequestList
Rank(call) == CHOOSE k \in 1..Len(RequestList) : RequestList[k] = call

AddRequests == {Call("add_todo", "", c, <<>>, TRUE, "") : c \in Contents}

\* stores earlier requests can have left: up to MaxUuid records with
\* different ids and any completed flags
Stores ==
    UNION {[1..n -> BOOLEAN] : n \in 0..MaxUuid}

StoreOf(flags) ==
    [i \in 1..Len(flags) |-> Todo(to_hyphenated(i), "x", flags[i])]

\* every worker thread has its request and is about to call state.lock()
Dispatched(requests) ==
    /\ pc = [t \in Threads |-> "wait"]
    /\ req \in [Threads -> requests]
    /\ out = [t \in Threads |-> [none |-> TRUE]]
    /\ exp = [t \in Threads |-> [none |-> TRUE]]
    /\ loop = [t \in Threads |-> [all_completed |-> TRUE, i |-> 0]]
    /\ lock = 0

InitC ==
    /\ \E flags \in Stores : state = [todos |-> StoreOf(flags)]
    /\ abs = state.todos
    /\ NoHistory
    /\ Dispatched(Requests)
    /\ \A t, u \in Threads : t < u => Rank(req[t]) <= Rank(req[u])

\* the store is empty and every request is an add_todo
InitAdd ==
    /\ state = new
    /\ abs = <<>>
    /\ NoHistory
    /\ Dispatched(AddRequests)

\* state.lock().unwrap() taking the Mutex although another guard is alive
Lock_not_exclusive(t) ==
    /\ pc[t] = "wait"
    /\ lock' = t
    /\ pc' = [pc EXCEPT ![t] = "held"]
    /\ UNCHANGED <<state, svars, req, out, loop, abs, exp>>

\* state.lock().unwrap(): blocks until the Mutex is free
Lock(t) ==
    /\ pc[t] = "wait"
    /\ lock = 0
    /\ lock' = t
    /\ pc' = [pc EXCEPT ![t] = "held"]
    /\ UNCHANGED <<state, svars, req, out, loop, abs, exp>>

\* the body of every handler but toggle_all, run through the guard
Operate(t) ==
    /\ pc[t] = "held"
    /\ req[t].name # "toggle_all"
    /\ \E uuid \in Uuids :
          LET r == handler(state.todos, req[t], uuid)
              a == handler(abs, req[t], uuid)
          IN  /\ state' = [state EXCEPT !.todos = r.todos]
              /\ out' = [out EXCEPT ![t] = r.response]
              /\ abs' = a.todos
              /\ exp' = [exp EXCEPT ![t] = a.response]
    /\ pc' = [pc EXCEPT ![t] = "reply"]
    /\ UNCHANGED <<svars, req, lock, loop>>

\* TodoAppState::toggle_all, first loop: all_completed
ScanAll(t) ==
    /\ pc[t] = "held"
    /\ req[t].name = "toggle_all"
    /\ loop' = [loop EXCEPT ![t] =
                   [all_completed |->
                        \A i \in 1..Len(state.todos) : state.todos[i].completed,
                    i |-> 1]]
    /\ pc' = [pc EXCEPT ![t] = "write"]
    /\ UNCHANGED <<state, svars, req, out, lock, abs, exp>>

\* TodoAppState::toggle_all, one turn of the second loop
WriteOne(t) ==
    /\ pc[t] = "write"
    /\ loop[t].i <= Len(state.todos)
    /\ state' = [state EXCEPT
                    !.todos[loop[t].i].completed = ~loop[t].all_completed]
    /\ loop' = [loop EXCEPT ![t].i = @ + 1]
    /\ UNCHANGED <<svars, pc, req, out, lock, abs, exp>>

\* TodoAppState::toggle_all returns and the handler builds its envelope
EndToggleAll(t) ==
    /\ pc[t] = "write"
    /\ loop[t].i > Len(state.todos)
    /\ out' = [out EXCEPT ![t] = Ok]
    /\ abs' = handler(abs, req[t], 1).todos
    /\ exp' = [exp EXCEPT ![t] = handler(abs, req[t], 1).response]
    /\ loop' = [loop EXCEPT ![t] = [all_completed |-> TRUE, i |-> 0]]
    /\ pc' = [pc EXCEPT ![t] = "reply"]
    /\ UNCHANGED <<state, svars, req, lock>>

\* the handler returning without dropping its guard (mem::forget)
Unlock_leaks_guard(t) ==
    /\ pc[t] = "reply"
    /\ pc' = [pc EXCEPT ![t] = "done"]
    /\ UNCHANGED <<state, svars, req, out, lock, loop, abs, exp>>

\* the handler returns: the guard is dropped and the envelope leaves
Unlock(t) ==
    /\ pc[t] = "reply"
    /\ lock' = 0
    /\ pc' = [pc EXCEPT ![t] = "done"]
    /\ UNCHANGED <<state, svars, req, out, loop, abs, exp>>

\* one step of worker thread t
Step(t) ==
    \/ Operate(t)
    \/ ScanAll(t)
    \/ WriteOne(t)
    \/ EndToggleAll(t)
    \/ Unlock(t)

NextC == \E t \in Threads : Lock(t) \/ Step(t)

SpecC == InitC /\ [][NextC]_vars

\* a thread holding the guard keeps running, and a thread waiting for the
\* Mutex gets it if it is free again and again
FairSpecC ==
    /\ SpecC
    /\ \A t \in Threads : WF_vars(Step(t)) /\ SF_vars(Lock(t))

NextAdd == \E t \in Threads : Lock(t) \/ Operate(t) \/ Unlock(t)

SpecAdd == InitAdd /\ [][NextAdd]_vars

(* ------------------- vocabulary of the properties ---------------------- *)
\* some record of ts carries this id
Has(ts, todo_id) == \E i \in 1..Len(ts) : ts[i].id = todo_id

\* ts with the record at position i taken out
Without(ts, i) ==
    [k \in 1..(Len(ts) - 1) |-> IF k < i THEN ts[k] ELSE ts[k + 1]]

\* the k-th smallest member of the index set A
Kth(A, k) == CHOOSE i \in A : Cardinality({j \in A : j <= i}) = k

\* the records of ts at the positions in A, in store order
Pick(ts, A) == [k \in 1..Cardinality(A) |-> ts[Kth(A, k)]]

Active(ts) == {i \in 1..Len(ts) : ~ts[i].completed}
Completed(ts) == {i \in 1..Len(ts) : ts[i].completed}

ById == {"remove_todo", "update_todo", "toggle_todo"}

(* ------------------------------ C1 ------------------------------------- *)
\* C1: in every reachable state no two Todo records of the store have the
\* same id.
C1_UniqueIds ==
    \A i, j \in 1..Len(state.todos) :
        i # j => state.todos[i].id # state.todos[j].id

(* ------------------------------ C2 ------------------------------------- *)
\* C2: the id that add assigns differs from every id add has assigned
\* before, including ids of records that were deleted since.
C2_IdNeverReused ==
    [][last'.name = "add_todo" => last'.new_id \notin issued]_vars

(* ------------------------------ C3 ------------------------------------- *)
\* C3: add(content) succeeds and makes the store the previous sequence
\* followed by one new record with the given content, completed = false and
\* an id (the returned value) that no record already in the store has.
C3_AddAppendsFreshTodo ==
    last.name = "add_todo" =>
        /\ response = Ok
        /\ Len(state.todos) = Len(pre) + 1
        /\ SubSeq(state.todos, 1, Len(pre)) = pre
        /\ state.todos[Len(state.todos)] = Todo(last.new_id, last.content, FALSE)
        /\ ~Has(pre, last.new_id)

(* ------------------------------ C4 ------------------------------------- *)
\* C4: remove, update and toggleOne on an id that no record of the store
\* has return false and leave the store exactly as it was.
C4_NotFoundLeavesStore ==
    (last.name \in ById /\ ~Has(pre, last.todo_id)) =>
        /\ last.ret = FALSE
        /\ state.todos = pre

C4_Witness ==
    /\ last.name = "update_todo"
    /\ ~Has(pre, last.todo_id)
    /\ Len(pre) >= 2
    /\ \E i \in 1..Len(pre) : pre[i].content # last.content

(* ------------------------------ C5 ------------------------------------- *)
\* C5: remove(id) on an id that is in the store returns true and deletes
\* exactly that one record: the others stay, unchanged and in order, and
\* the size decreases by exactly one.
C5_RemoveDeletesOne ==
    (last.name = "remove_todo" /\ Has(pre, last.todo_id)) =>
        /\ last.ret = TRUE
        /\ Len(state.todos) = Len(pre) - 1
        /\ \E i \in 1..Len(pre) :
              /\ pre[i].id = last.todo_id
              /\ state.todos = Without(pre, i)

(* ------------------------------ C6 ------------------------------------- *)
\* C6: update(id, content) on an id that is in the store returns true and
\* changes only the content of that record: its id, its completed flag, its
\* position and every other record are unchanged.
C6_UpdateChangesOnlyContent ==
    (last.name = "update_todo" /\ Has(pre, last.todo_id)) =>
        /\ last.ret = TRUE
        /\ \E i \in 1..Len(pre) :
              /\ pre[i].id = last.todo_id
              /\ state.todos = [pre EXCEPT ![i].content = last.content]

C6_Witness ==
    /\ last.name = "update_todo"
    /\ last.ret
    /\ Len(pre) >= 2
    /\ \E i \in 1..Len(pre) :
          /\ pre[i].id = last.todo_id
          /\ pre[i].completed
          /\ pre[i].content # last.content
          /\ state.todos[i].content = last.content

(* ------------------------------ C7 ------------------------------------- *)
\* C7: toggleOne(id) on an id that is in the store returns true and negates
\* that record's completed flag once; a second toggleOne(id) right after a
\* first one leaves the store as it was before the first.
C7_ToggleStep ==
    (last'.name = "toggle_todo" /\ Has(state.todos, last'.todo_id)) =>
        /\ last'.ret = TRUE
        /\ \E i \in 1..Len(state.todos) :
              /\ state.todos[i].id = last'.todo_id
              /\ state'.todos =
                    [state.todos EXCEPT ![i].completed = ~state.todos[i].completed]
        /\ (last.name = "toggle_todo" /\ last.todo_id = last'.todo_id)
              => state'.todos = pre

C7_ToggleTwiceRestores == [][C7_ToggleStep]_vars

C7_Witness ==
    /\ last.name = "toggle_todo"
    /\ last.ret
    /\ twice
    /\ Len(pre) >= 2
    /\ state.todos # pre

(* ------------------------------ C8 ------------------------------------- *)
\* C8: toggleAll decides once from the store before any mutation: all
\* completed then => all not completed now, otherwise all completed now;
\* ids, contents, order and size are unchanged.
C8_ToggleAll ==
    last.name = "toggle_all" =>
        /\ Len(state.todos) = Len(pre)
        /\ \A i \in 1..Len(pre) :
              /\ state.todos[i].id = pre[i].id
              /\ state.todos[i].content = pre[i].content
        /\ IF \A i \in 1..Len(pre) : pre[i].completed
           THEN \A i \in 1..Len(state.todos) : ~state.todos[i].completed
           ELSE \A i \in 1..Len(state.todos) : state.todos[i].completed

C8_Witness ==
    /\ last.name = "toggle_all"
    /\ Len(pre) >= 2
    /\ Active(pre) # {}
    /\ Completed(pre) # {}

(* ------------------------------ C9 ------------------------------------- *)
\* C9: clearCompleted leaves exactly the records that were not completed,
\* unchanged and in their previous order; afterwards none is completed.
C9_ClearCompleted ==
    last.name = "clear_completed" =>
        /\ state.todos = Pick(pre, Active(pre))
        /\ \A i \in 1..Len(state.todos) : ~state.todos[i].completed

C9_Witness ==
    /\ last.name = "clear_completed"
    /\ Len(pre) = 3
    /\ ~pre[1].completed /\ pre[2].completed /\ ~pre[3].completed
    /\ pre[1] # pre[3]
    /\ state.todos = <<pre[1], pre[3]>>

(* ------------------------------ C10 ------------------------------------ *)
\* C10: list(filter) returns in store order the not-completed records for
\* "active", the completed ones for "completed" and the whole store for
\* "all", no filter or any other string; it reports success and leaves the
\* store alone.
C10_List ==
    last.name = "todos" =>
        /\ response.success = TRUE
        /\ response.message = ""
        /\ state.todos = pre
        /\ response.data =
              IF last.filter = <<"active">> THEN Pick(pre, Active(pre))
              ELSE IF last.filter = <<"completed">> THEN Pick(pre, Completed(pre))
              ELSE pre

C10_Witness ==
    /\ last.name = "todos"
    /\ last.filter = <<"active">>
    /\ Len(pre) = 3
    /\ Len(response.data) = 2
    /\ response.data[1] # response.data[2]

(* ------------------------------ C11 ------------------------------------ *)
AllDone == \A t \in Threads : pc[t] = "done"

\* C11: when MaxThreads add requests run concurrently on an empty store,
\* then once all have returned the store holds exactly MaxThreads records
\* and each add has given its record a different id.
C11_ConcurrentAdds ==
    AllDone =>
        /\ Len(state.todos) = MaxThreads
        /\ \A i, j \in 1..Len(state.todos) :
              i # j => state.todos[i].id # state.todos[j].id

(* ------------------------------ C12 ------------------------------------ *)
\* C12: operations are linearizable: whenever the Mutex is free the store
\* is what the finished operations give when applied one at a time, in the
\* order they finished, and every envelope (the data of a list request
\* included) is what its operation returns at its place in that order.
C12_Linearizable ==
    /\ lock = 0 => state.todos = abs
    /\ \A t \in Threads : pc[t] \in {"reply", "done"} => out[t] = exp[t]

C12_Witness ==
    /\ AllDone
    /\ Len(state.todos) >= 2
    /\ \A i \in 1..Len(state.todos) : state.todos[i].completed
    /\ \E t, u \in Threads :
          /\ req[t].name = "todos"
          /\ req[t].filter = <<"active">>
          /\ req[u].name = "toggle_all"
          /\ out[t].data # <<>>
          /\ Len(out[t].data) < Len(state.todos)

(* ------------------------------ C17 ------------------------------------ *)
\* as long as some request has not been answered, some thread can step
NoDeadlock ==
    (\E t \in Threads : pc[t] # "done") => ENABLED NextC

\* C17: no request blocks forever: no reachable state is a deadlock, and
\* under fair lock acquisition every dispatched request gets its response.
C17_NoRequestBlocksForever ==
    /\ []NoDeadlock
    /\ \A t \in Threads : (pc[t] = "wait") ~> (pc[t] = "done")

C17_Witness ==
    \E t, u \in Threads :
        /\ t # u
        /\ pc[t] = "wait"
        /\ lock = u
        /\ pc[u] = "write"
        /\ loop[u].i = 2

(* ------------------------------ C13 ------------------------------------ *)
\* C13: remove_todo, update_todo and toggle_todo answer a todo_id that no
\* record has with success = false and the message "<id> is not found", in
\* the same form for all three endpoints.
C13_NotFoundMessage ==
    (last.name \in ById /\ ~Has(pre, last.todo_id)) =>
        /\ response.success = FALSE
        /\ response.message = last.todo_id \o " is not found"

(* ------------------------------ C14 ------------------------------------ *)
\* the ids of ts, in store order
IdsOf(ts) == [i \in 1..Len(ts) |-> ts[i].id]

\* a is b with some positions deleted
RECURSIVE Deleted(_, _)
Deleted(a, b) ==
    IF a = <<>> THEN TRUE
    ELSE IF b = <<>> THEN FALSE
    ELSE IF Head(a) = Head(b) THEN Deleted(Tail(a), Tail(b))
    ELSE Deleted(a, Tail(b))

\* C14: an id is immutable once assigned: the sequence of ids in the store
\* changes only by an append (add) or by deletions (remove, clearCompleted);
\* update, toggleOne, toggleAll and list leave it as it is.
C14_IdsImmutable ==
    LET old == IdsOf(pre)
        now == IdsOf(state.todos)
    IN  CASE last.name = "add_todo" -> now = Append(old, last.new_id)
          [] last.name \in {"remove_todo", "clear_completed"} -> Deleted(now, old)
          [] OTHER -> now = old

C14_Witness ==
    /\ last.name = "update_todo"
    /\ last.ret
    /\ Len(pre) >= 2
    /\ state.todos # pre
    /\ \E i \in 1..Len(pre) : pre[i].id # last.todo_id

(* ------------------------------ C15 ------------------------------------ *)
\* C15: the store is in insertion order: a new record enters at the end,
\* and no operation swaps two records that stay: what add finds is a prefix
\* of what it leaves, what remove and clearCompleted leave is what they
\* found with some records taken out, and every other operation leaves each
\* record at its position.
C15_InsertionOrder ==
    /\ last.name = "add_todo" =>
          /\ Len(state.todos) = Len(pre) + 1
          /\ \A i \in 1..Len(pre) : state.todos[i] = pre[i]
    /\ last.name \in {"remove_todo", "clear_completed"} =>
          Deleted(state.todos, pre)
    /\ last.name \in {"update_todo", "toggle_todo", "toggle_all", "todos"} =>
          /\ Len(state.todos) = Len(pre)
          /\ \A i \in 1..Len(pre) :
                /\ state.todos[i].id = pre[i].id
                /\ last.name # "update_todo" =>
                      state.todos[i].content = pre[i].content
    /\ last.name = "todos" => Deleted(response.data, pre)

C15_Witness ==
    /\ last.name = "add_todo"
    /\ Len(pre) = 2
    /\ pre[1] # pre[2]
    /\ state.todos[3] # pre[1]
    /\ state.todos[3] # pre[2]

(* ------------------------------ C16 ------------------------------------ *)
\* C16: not-found is the only failure: todos, add_todo, clear_completed and
\* toggle_all always answer success = true with an empty message, and
\* remove_todo, update_todo and toggle_todo answer so exactly when a record
\* with the requested id is in the store, and success = false otherwise.
C16_OnlyNotFoundFails ==
    /\ last.name \in {"todos", "add_todo", "clear_completed", "toggle_all"} =>
          (response.success = TRUE /\ response.message = "")
    /\ last.name \in ById =>
          IF Has(pre, last.todo_id)
          THEN response.success = TRUE /\ response.message = ""
          ELSE response.success = FALSE

C16_Witness ==
    /\ last.name = "remove_todo"
    /\ Has(pre, last.todo_id)
    /\ Len(state.todos) >= 1
    /\ response.success

(* ------------------------------ C18 ------------------------------------ *)
Uniform(ts) == \A i, j \in 1..Len(ts) : ts[i].completed = ts[j].completed

C18_SecondToggleAll ==
    (last.name = "toggle_all" /\ last'.name = "toggle_all") =>
        /\ Uniform(state'.todos)
        /\ state.todos = <<>> => state'.todos = <<>>
        /\ \A i \in 1..Len(state'.todos) :
              state'.todos[i].completed =
                  (\A k \in 1..Len(pre) : pre[k].completed)

First(ts, todo_id) ==
    CHOOSE i \in 1..Len(ts) :
        /\ ts[i].id = todo_id
        /\ \A j \in 1..(i - 1) : ts[j].id # todo_id

\* C19: update and toggleOne modify at most one record, the first whose id
\* matches: every other record keeps id, content and completed flag, the
\* length is unchanged, and toggleOne leaves the target's content alone.
C19_OnlyFirstMatch ==
    last.name \in {"update_todo", "toggle_todo"} =>
        /\ Len(state.todos) = Len(pre)
        /\ \A i \in 1..Len(pre) :
              (~Has(pre, last.todo_id) \/ i # First(pre, last.todo_id)) =>
                  state.todos[i] = pre[i]
        /\ (last.name = "toggle_todo" /\ Has(pre, last.todo_id)) =>
              LET f == First(pre, last.todo_id)
              IN  /\ state.todos[f].content = pre[f].content
                  /\ state.todos[f].id = pre[f].id

C19_Witness ==
    /\ last.name = "toggle_todo"
    /\ Len(pre) = 3
    /\ pre[1].id # last.todo_id
    /\ pre[2].id = last.todo_id
    /\ pre[3].id = last.todo_id
    /\ state.todos[2] # pre[2]
    /\ state.todos[3] = pre[3]

====
